---- MODULE Spec2Model ----
(***************************************************************************)
(* Model of the courses application of django-edu: the relational store    *)
(* (Course, Module, Content and the four content item tables), the         *)
(* OrderField that assigns positions, and the views that create, update,   *)
(* delete and reorder modules and contents.                                *)
(***************************************************************************)
EXTENDS Integers, FiniteSets, Sequences, TLC

\* ---------------------------------------------------------------- bounds
MaxCourses == 2
MaxModules == 2
MaxContentCourses == 1
MaxContentModules == 2
MaxContents == 2
MaxStepModules == 1
MaxSerialContents == 1
MaxPos == 1
MaxEntries == 2
MaxChurnModules == 3
MaxChurnContents == 3

\* ------------------------------------------------------- fixed vocabulary
Users == {"u1", "u2"}
Workers == {"w1", "w2"}
\* the value of an unset position attribute (Python None)
None == -1
\* kind tags accepted by get_model / limit_choices_to
ContentKinds == {"text", "video", "image", "file"}
\* kind tags the clients put in the URL: two of the four and a foreign one
KindTags == {"text", "image", "audio"}
Positions == 0..MaxPos
CourseIds == 1..MaxCourses
ModuleIds == 1..MaxModules
ContentIds == 1..MaxContents
\* ids a client may name in a request; the ids not handed out yet and those
\* of deleted rows are the ids of no row
ModuleIdArgs == ModuleIds
ContentIdArgs == ContentIds
ItemIdArgs == ContentIds

VARIABLES
    courses,    \* rows of Course: [id, owner]
    modules,    \* rows of Module: [id, course, order]
    contents,   \* rows of Content: [id, module, content_type, object_id, order]
    items,      \* rows of Text/Video/Image/File: [kind, id, owner]
    nextId,     \* the auto-increment counter of every table
    request,    \* the operation handled last
    response,   \* the response to it
    pc          \* per request-processing unit: the request in progress

vars == <<courses, modules, contents, items, nextId, request, response, pc>>

Idle == [st |-> "idle", user |-> "u1", module |-> 0, kind |-> "text",
         obj |-> 0, content |-> 0, value |-> 0, json |-> <<>>, done |-> {}]

\* ------------------------------------------------------------ OrderField
\* qs.latest('order'): a row of qs with the highest order
latest(qs) == CHOOSE r \in qs : \A t \in qs : t.order <= r.order

\* Module.order = OrderField(for_fields=['course']): the rows with the same course
ModuleForFields(qs, course) == {m \in qs : m.course = course}

\* the filter on for_fields left out
ContentForFields_unfiltered(qs, module) == qs

\* Content.order = OrderField(for_fields=['module']): the rows with the same module
ContentForFields(qs, module) == {c \in qs : c.module = module}

\* the highest order taken again instead of the one after it
pre_save_no_increment(value, qs) ==
    IF value = None
    THEN IF qs = {} THEN 0 ELSE latest(qs).order
    ELSE value

\* the number of rows of the scope taken as the next order
pre_save_count(value, qs) ==
    IF value = None THEN Cardinality(qs) ELSE value

\* the order computed whether or not the instance has one
pre_save_always_computed(value, qs) ==
    IF qs = {} THEN 0 ELSE latest(qs).order + 1

\* OrderField.pre_save: value is the attribute on the instance, qs the
\* filtered queryset; an empty qs raises ObjectDoesNotExist in latest()
pre_save(value, qs) ==
    IF value = None
    THEN IF qs = {} THEN 0 ELSE latest(qs).order + 1
    ELSE value

\* ------------------------------------------------------------- the store
CourseOwner(cid) == (CHOOSE c \in courses : c.id = cid).owner

\* the check of the course owner left out
OwnedModules_any_owner(mods, id, user) == {m \in mods : m.id = id}

\* Module.objects.filter(id=id, course__owner=user)
OwnedModules(mods, id, user) ==
    {m \in mods : m.id = id /\ \E c \in courses : c.id = m.course /\ c.owner = user}

\* Content.objects.filter(id=id, module__course__owner=user)
OwnedContents(cts, id, user) ==
    {c \in cts : c.id = id /\ OwnedModules(modules, c.module, user) # {}}

\* on_delete=CASCADE from Content.module: the contents that go with the modules
CascadeContents(cts, gone) == {c \in cts : c.module \notin {m.id : m \in gone}}

\* Meta.ordering = ['order']: the sequences a listing of the rows may return
\* (rows of equal order come in either order)
Listings(rows) ==
    {s \in [1..Cardinality(rows) -> rows] :
        /\ \A i, j \in DOMAIN s : i # j => s[i] # s[j]
        /\ \A i, j \in DOMAIN s : i < j => s[i].order <= s[j].order}

Init ==
    /\ courses = {}
    /\ modules = {}
    /\ contents = {}
    /\ items = {}
    /\ nextId = [course |-> 1, module |-> 1, content |-> 1,
                 item |-> [k \in ContentKinds |-> 1]]
    /\ request = "none"
    /\ response = "none"
    /\ pc = [w \in Workers |-> Idle]

\* ---------------------------------------------------------------- courses
\* CourseCreateView: OwnerEditMixin.form_valid sets the owner
CourseCreateView_post(u) ==
    /\ request' = "course_create"
    /\ courses' = courses \cup {[id |-> nextId.course, owner |-> u]}
    /\ nextId' = [nextId EXCEPT !.course = @ + 1]
    /\ response' = "302 manage_course_list"
    /\ UNCHANGED <<modules, contents, items, pc>>

\* CourseDeleteView: OwnerMixin.get_queryset filters by owner; the delete
\* cascades to the modules of the course and to their contents
CourseDeleteView_post(u, pk) ==
    /\ request' = "course_delete"
    /\ LET found == {c \in courses : c.id = pk /\ c.owner = u}
           gone == {m \in modules : m.course = pk}
       IN  IF found = {}
           THEN /\ response' = "404"
                /\ UNCHANGED <<courses, modules, contents, items, nextId, pc>>
           ELSE /\ courses' = courses \ found
                /\ modules' = modules \ gone
                /\ contents' = CascadeContents(contents, gone)
                /\ response' = "302 manage_course_list"
                /\ UNCHANGED <<items, nextId, pc>>

\* ---------------------------------------------------------------- modules
\* Model.save of a new Module row: the OrderField computes the order in
\* pre_save, then the row is inserted under the next id
InsertModule(mods, nid, course, value) ==
    mods \cup {[id |-> nid, course |-> course,
                order |-> pre_save(value, ModuleForFields(mods, course))]}

\* Model.save of an existing Module row: every field is written back, the
\* order through pre_save
SaveModule(mods, m) ==
    (mods \ {m}) \cup
        {[m EXCEPT !.order = pre_save(m.order, ModuleForFields(mods, m.course))]}

\* Module(course=course, order=value).save() through the model API; value is
\* None when the caller leaves the order out
Module_objects_create(course, value) ==
    /\ request' = "module_save"
    /\ \E c \in courses : c.id = course
    /\ modules' = InsertModule(modules, nextId.module, course, value)
    /\ nextId' = [nextId EXCEPT !.module = @ + 1]
    /\ response' = "none"
    /\ UNCHANGED <<courses, contents, items, pc>>

\* ModuleFormSet: extra=2 empty forms for new modules
FormsetExtra == 2

RECURSIVE SaveNewObjects(_, _, _, _)
\* BaseModelFormSet.save_new_objects: the n filled extra forms, one save each
SaveNewObjects(mods, nid, course, n) ==
    IF n = 0 THEN mods
    ELSE SaveNewObjects(InsertModule(mods, nid, course, None), nid + 1, course, n - 1)

RECURSIVE SaveExisting(_, _)
\* BaseModelFormSet.save_existing_objects for the changed forms
SaveExisting(mods, changed) ==
    IF changed = {} THEN mods
    ELSE LET id == CHOOSE i \in changed : TRUE
             m == CHOOSE r \in mods : r.id = id
         IN  SaveExisting(SaveModule(mods, m), changed \ {id})

\* CourseModuleUpdateView.dispatch and post: deleted, changed are the ids of
\* the course's modules whose form is marked DELETE or has changed fields,
\* n the number of filled extra forms, valid the outcome of formset.is_valid()
CourseModuleUpdateView_post(u, pk, deleted, changed, n, valid) ==
    /\ request' = "module_formset"
    /\ LET found == {c \in courses : c.id = pk /\ c.owner = u}
           mine == {m.id : m \in ModuleForFields(modules, pk)}
           gone == {m \in modules : m.id \in deleted}
       IN  IF found = {}
           THEN /\ deleted = {} /\ changed = {} /\ n = 0 /\ valid
                /\ response' = "404"
                /\ UNCHANGED <<courses, modules, contents, items, nextId, pc>>
           ELSE /\ deleted \subseteq mine
                /\ changed \subseteq mine \ deleted
                /\ IF valid
                   THEN /\ modules' = SaveNewObjects(SaveExisting(modules \ gone, changed),
                                                     nextId.module, pk, n)
                        /\ contents' = CascadeContents(contents, gone)
                        /\ nextId' = [nextId EXCEPT !.module = @ + n]
                        /\ response' = "302 manage_course_list"
                   ELSE /\ response' = "200 form"
                        /\ UNCHANGED <<modules, contents, nextId>>
                /\ UNCHANGED <<courses, items, pc>>

\* the initial forms of the formset built for course pk on behalf of u
FormsetIds(u, pk) ==
    IF \E c \in courses : c.id = pk /\ c.owner = u
    THEN {m.id : m \in ModuleForFields(modules, pk)} ELSE {}

\* ModuleOrderView.post: request_json maps module ids to orders; one
\* filter(...).update(order=order) per entry
ApplyModuleOrder(mods, u, mapping) ==
    {IF m.id \in DOMAIN mapping /\ OwnedModules(mods, m.id, u) # {}
     THEN [m EXCEPT !.order = mapping[m.id]] ELSE m : m \in mods}

ModuleOrderView_post(u, mapping) ==
    /\ request' = "module_order"
    /\ modules' = ApplyModuleOrder(modules, u, mapping)
    /\ response' = "200 saved OK"
    /\ UNCHANGED <<courses, contents, items, nextId, pc>>

\* the JSON bodies of a module reorder request
ModuleOrderings ==
    UNION {[ids -> Positions] :
             ids \in {x \in SUBSET ModuleIdArgs : Cardinality(x) <= MaxEntries}}

\* --------------------------------------------------------------- contents
\* what get_model returns for a kind tag outside the four content types
NoModel == "None"

\* ContentCreateUpdateView.get_model
get_model(model_name) ==
    IF model_name \in ContentKinds THEN model_name ELSE NoModel

\* get_object_or_404(self.model, id=id, owner=request.user)
OwnedItems(its, model, id, user) ==
    {i \in its : i.kind = model /\ i.id = id /\ i.owner = user}

\* obj.save() of the concrete item: an insert under the next id of its table
\* when obj is new (id = None), a write of the row under its id otherwise
SaveItem(its, model, id, user) ==
    LET pk == IF id = None THEN nextId.item[model] ELSE id
    IN  {i \in its : ~(i.kind = model /\ i.id = pk)}
            \cup {[kind |-> model, id |-> pk, owner |-> user]}

\* Content.objects.create(module=module, item=obj): the generic foreign key
\* stores (content_type, object_id), the OrderField computes the order
InsertContent(cts, nid, module, model, object_id, value) ==
    cts \cup {[id |-> nid, module |-> module, content_type |-> model,
               object_id |-> object_id,
               order |-> pre_save(value, ContentForFields(cts, module))]}

\* Content.item: the row the generic foreign key resolves to, if any
ContentItem(its, c) ==
    {i \in its : i.kind = c.content_type /\ i.id = c.object_id}

\* the item left in its table
DeleteItem_nothing(its, kind, id) == its

\* the content type left out of the lookup of the item
DeleteItem_any_kind(its, kind, id) == {i \in its : i.id # id}

\* content.item.delete(): the row of the concrete item goes
DeleteItem(its, kind, id) == {i \in its : ~(i.kind = kind /\ i.id = id)}

\* ContentCreateUpdateView.dispatch and post; id is None on the create URL,
\* valid the outcome of form.is_valid()
ContentCreateUpdateView_post(u, module_id, model_name, id, valid) ==
    /\ request' = (IF id = None THEN "content_create" ELSE "content_update")
    /\ LET model == get_model(model_name)
       IN  IF OwnedModules(modules, module_id, u) = {}
           THEN /\ valid
                /\ response' = "404"
                /\ UNCHANGED <<courses, modules, contents, items, nextId, pc>>
           ELSE IF model = NoModel
           THEN \* get_object_or_404(None, ...) or get_form(None, ...): an exception
                /\ valid
                /\ response' = "500"
                /\ UNCHANGED <<courses, modules, contents, items, nextId, pc>>
           ELSE IF id # None /\ OwnedItems(items, model, id, u) = {}
           THEN /\ valid
                /\ response' = "404"
                /\ UNCHANGED <<courses, modules, contents, items, nextId, pc>>
           ELSE IF ~valid
           THEN /\ response' = "200 form"
                /\ UNCHANGED <<courses, modules, contents, items, nextId, pc>>
           ELSE IF id = None
           THEN /\ items' = SaveItem(items, model, None, u)
                /\ contents' = InsertContent(contents, nextId.content, module_id, model,
                                             nextId.item[model], None)
                /\ nextId' = [nextId EXCEPT !.content = @ + 1, !.item[model] = @ + 1]
                /\ response' = "302 module_content_list"
                /\ UNCHANGED <<courses, modules, pc>>
           ELSE /\ items' = SaveItem(items, model, id, u)
                /\ response' = "302 module_content_list"
                /\ UNCHANGED <<courses, modules, contents, nextId, pc>>

\* ContentDeleteView.post: content.item.delete() then content.delete()
ContentDeleteView_post(u, id) ==
    /\ request' = "content_delete"
    /\ LET found == OwnedContents(contents, id, u)
       IN  IF found = {}
           THEN /\ response' = "404"
                /\ UNCHANGED <<courses, modules, contents, items, nextId, pc>>
           ELSE LET content == CHOOSE c \in found : TRUE
                IN  IF ContentItem(items, content) = {}
                    THEN \* content.item is None: AttributeError
                         /\ response' = "500"
                         /\ UNCHANGED <<courses, modules, contents, items, nextId, pc>>
                    ELSE /\ items' = DeleteItem(items, content.content_type, content.object_id)
                         /\ contents' = contents \ {content}
                         /\ response' = "302 module_content_list"
                         /\ UNCHANGED <<courses, modules, nextId, pc>>

\* the filter on the id left out: every content of the caller takes the
\* position of some entry
ApplyContentOrder_every_row(cts, u, mapping) ==
    {IF DOMAIN mapping # {} /\ OwnedContents(cts, c.id, u) # {}
     THEN [c EXCEPT !.order = mapping[CHOOSE id \in DOMAIN mapping : TRUE]] ELSE c : c \in cts}

\* ContentOrderView.post: one filter(...).update(order=order) per entry
ApplyContentOrder(cts, u, mapping) ==
    {IF c.id \in DOMAIN mapping /\ OwnedContents(cts, c.id, u) # {}
     THEN [c EXCEPT !.order = mapping[c.id]] ELSE c : c \in cts}

ContentOrderView_post(u, mapping) ==
    /\ request' = "content_order"
    /\ contents' = ApplyContentOrder(contents, u, mapping)
    /\ response' = "200 saved OK"
    /\ UNCHANGED <<courses, modules, items, nextId, pc>>

\* the JSON bodies of a content reorder request
ContentOrderings ==
    UNION {[ids -> Positions] :
             ids \in {x \in SUBSET ContentIdArgs : Cardinality(x) <= MaxEntries}}

\* ------------------------------------------- content requests, by step
\* Each request of the content views is a sequence of queries against the
\* store; pc[w] holds the position of the request the unit w is handling and
\* the attributes of the view (self.module, self.model, self.obj, content).

\* ContentCreateUpdateView.dispatch up to form.is_valid(): the lookups of the
\* module and of the item, get_model for the kind tag, the validation
Dispatch(w, u, module_id, model_name, id, valid) ==
    LET model == get_model(model_name)
        op == IF id = None THEN "content_create" ELSE "content_update"
        answer(r) == /\ request' = op /\ response' = r /\ pc' = pc
    IN  /\ pc[w].st = "idle"
        /\ IF OwnedModules(modules, module_id, u) = {}
           THEN valid /\ answer("404")
           ELSE IF model = NoModel
           THEN valid /\ answer("500")
           ELSE IF id # None /\ OwnedItems(items, model, id, u) = {}
           THEN valid /\ answer("404")
           ELSE IF ~valid
           THEN answer("200 form")
           ELSE /\ pc' = [pc EXCEPT ![w] =
                            [Idle EXCEPT !.st = IF id = None THEN "save_new" ELSE "save",
                                         !.user = u, !.module = module_id,
                                         !.kind = model,
                                         !.obj = IF id = None THEN 0 ELSE id]]
                /\ UNCHANGED <<request, response>>
        /\ UNCHANGED <<courses, modules, contents, items, nextId>>

\* ContentCreateUpdateView.post, update: obj.save() writes the row back, or
\* inserts it again when the row is gone
SaveObj(w) ==
    /\ pc[w].st = "save"
    /\ items' = SaveItem(items, pc[w].kind, pc[w].obj, pc[w].user)
    /\ request' = "content_update"
    /\ response' = "302 module_content_list"
    /\ pc' = [pc EXCEPT ![w] = Idle]
    /\ UNCHANGED <<courses, modules, contents, nextId>>

\* ContentCreateUpdateView.post, create: obj.save() inserts the item
SaveNewObj(w) ==
    /\ pc[w].st = "save_new"
    /\ items' = SaveItem(items, pc[w].kind, None, pc[w].user)
    /\ nextId' = [nextId EXCEPT !.item[pc[w].kind] = @ + 1]
    /\ pc' = [pc EXCEPT ![w].st = "pre_save", ![w].obj = nextId.item[pc[w].kind]]
    /\ UNCHANGED <<courses, modules, contents, request, response>>

\* Content.objects.create, first query: OrderField.pre_save reads the last
\* content of the module
PreSaveContent(w) ==
    /\ pc[w].st = "pre_save"
    /\ pc' = [pc EXCEPT ![w].st = "insert",
                        ![w].value = pre_save(None, ContentForFields(contents, pc[w].module))]
    /\ UNCHANGED <<courses, modules, contents, items, nextId, request, response>>

\* Content.objects.create, second query: the insert; the foreign key to the
\* module fails it with an IntegrityError when the module is gone
InsertNewContent(w) ==
    /\ pc[w].st = "insert"
    /\ request' = "content_create"
    /\ IF \E m \in modules : m.id = pc[w].module
       THEN /\ contents' = InsertContent(contents, nextId.content, pc[w].module,
                                         pc[w].kind, pc[w].obj, pc[w].value)
            /\ nextId' = [nextId EXCEPT !.content = @ + 1]
            /\ response' = "302 module_content_list"
       ELSE /\ response' = "500"
            /\ UNCHANGED <<contents, nextId>>
    /\ pc' = [pc EXCEPT ![w] = Idle]
    /\ UNCHANGED <<courses, modules, items>>

\* ContentDeleteView.post: the lookup of the content and of content.item
GetContent(w, u, id) ==
    LET found == OwnedContents(contents, id, u)
        content == CHOOSE c \in found : TRUE
        answer(r) == /\ request' = "content_delete" /\ response' = r /\ pc' = pc
    IN  /\ pc[w].st = "idle"
        /\ IF found = {}
           THEN answer("404")
           ELSE IF ContentItem(items, content) = {}
           THEN answer("500")
           ELSE /\ pc' = [pc EXCEPT ![w] =
                            [Idle EXCEPT !.st = "delete_item", !.user = u,
                                         !.module = content.module,
                                         !.kind = content.content_type,
                                         !.obj = content.object_id,
                                         !.content = id]]
                /\ UNCHANGED <<request, response>>
        /\ UNCHANGED <<courses, modules, contents, items, nextId>>

\* ContentDeleteView.post: content.item.delete()
DeleteContentItem(w) ==
    /\ pc[w].st = "delete_item"
    /\ items' = DeleteItem(items, pc[w].kind, pc[w].obj)
    /\ pc' = [pc EXCEPT ![w].st = "delete_content"]
    /\ UNCHANGED <<courses, modules, contents, nextId, request, response>>

\* ContentDeleteView.post: content.delete() and the redirect
DeleteContent(w) ==
    /\ pc[w].st = "delete_content"
    /\ contents' = {c \in contents : c.id # pc[w].content}
    /\ request' = "content_delete"
    /\ response' = "302 module_content_list"
    /\ pc' = [pc EXCEPT ![w] = Idle]
    /\ UNCHANGED <<courses, modules, items, nextId>>

\* the creations of content that have not inserted their Content row yet
Creating == {w \in Workers : pc[w].st \in {"save_new", "pre_save", "insert"}}

\* -------------------------------------------- reorder requests, by step
\* A reorder request is a loop over the entries of request_json with one
\* UPDATE query each; pc[w].json holds the body and pc[w].done the keys the
\* loop has been through. The keys come in the order the client wrote them.

\* the JSON bodies of a reorder request, null among the orders: an UPDATE
\* that sets the order of a row to NULL fails on the NOT NULL column
OrderBodies(ids) ==
    UNION {[x -> Positions \cup {None}] :
             x \in {y \in SUBSET ids : Cardinality(y) <= MaxEntries}}

\* ModuleOrderView.post: the body is parsed, the loop starts
ModuleOrderView_begin(w, u, mapping) ==
    /\ pc[w].st = "idle"
    /\ pc' = [pc EXCEPT ![w] = [Idle EXCEPT !.st = "module_order", !.user = u,
                                            !.json = mapping]]
    /\ UNCHANGED <<courses, modules, contents, items, nextId, request, response>>

\* every entry left written in one statement
ModuleOrderView_update_whole_batch(w) ==
    /\ pc[w].st = "module_order"
    /\ pc[w].done # DOMAIN pc[w].json
    /\ \A id \in DOMAIN pc[w].json : pc[w].json[id] # None
    /\ modules' = ApplyModuleOrder(modules, pc[w].user,
                     [id \in DOMAIN pc[w].json \ pc[w].done |-> pc[w].json[id]])
    /\ pc' = [pc EXCEPT ![w].done = DOMAIN pc[w].json]
    /\ UNCHANGED <<courses, contents, items, nextId, request, response>>

\* ModuleOrderView.post, one turn of the loop:
\* Module.objects.filter(id=id, course__owner=user).update(order=order)
ModuleOrderView_update(w) ==
    /\ pc[w].st = "module_order"
    /\ \E id \in DOMAIN pc[w].json \ pc[w].done :
         LET order == pc[w].json[id]
         IN  IF order = None /\ OwnedModules(modules, id, pc[w].user) # {}
             THEN \* IntegrityError: the request ends here
                  /\ request' = "module_order"
                  /\ response' = "500"
                  /\ pc' = [pc EXCEPT ![w] = Idle]
                  /\ UNCHANGED modules
             ELSE /\ modules' = ApplyModuleOrder(modules, pc[w].user, id :> order)
                  /\ pc' = [pc EXCEPT ![w].done = @ \cup {id}]
                  /\ UNCHANGED <<request, response>>
    /\ UNCHANGED <<courses, contents, items, nextId>>

\* ModuleOrderView.post, after the loop: render_json_response({'saved': 'OK'})
ModuleOrderView_render(w) ==
    /\ pc[w].st = "module_order"
    /\ pc[w].done = DOMAIN pc[w].json
    /\ request' = "module_order"
    /\ response' = "200 saved OK"
    /\ pc' = [pc EXCEPT ![w] = Idle]
    /\ UNCHANGED <<courses, modules, contents, items, nextId>>

\* ContentOrderView.post: the body is parsed, the loop starts
ContentOrderView_begin(w, u, mapping) ==
    /\ pc[w].st = "idle"
    /\ pc' = [pc EXCEPT ![w] = [Idle EXCEPT !.st = "content_order", !.user = u,
                                            !.json = mapping]]
    /\ UNCHANGED <<courses, modules, contents, items, nextId, request, response>>

\* ContentOrderView.post, one turn of the loop:
\* Content.objects.filter(id=id, module__course__owner=user).update(order=order)
ContentOrderView_update(w) ==
    /\ pc[w].st = "content_order"
    /\ \E id \in DOMAIN pc[w].json \ pc[w].done :
         LET order == pc[w].json[id]
         IN  IF order = None /\ OwnedContents(contents, id, pc[w].user) # {}
             THEN \* IntegrityError: the request ends here
                  /\ request' = "content_order"
                  /\ response' = "500"
                  /\ pc' = [pc EXCEPT ![w] = Idle]
                  /\ UNCHANGED contents
             ELSE /\ contents' = ApplyContentOrder(contents, pc[w].user, id :> order)
                  /\ pc' = [pc EXCEPT ![w].done = @ \cup {id}]
                  /\ UNCHANGED <<request, response>>
    /\ UNCHANGED <<courses, modules, items, nextId>>

\* ContentOrderView.post, after the loop: render_json_response({'saved': 'OK'})
ContentOrderView_render(w) ==
    /\ pc[w].st = "content_order"
    /\ pc[w].done = DOMAIN pc[w].json
    /\ request' = "content_order"
    /\ response' = "200 saved OK"
    /\ pc' = [pc EXCEPT ![w] = Idle]
    /\ UNCHANGED <<courses, modules, contents, items, nextId>>

\* ------------------------------------------------------- specifications
\* the requests on courses
CourseRequest(limit) ==
    \/ \E u \in Users : nextId.course <= limit /\ CourseCreateView_post(u)
    \/ \E u \in Users, pk \in 1..limit : CourseDeleteView_post(u, pk)

\* the creation of a course alone
CourseCreateRequest(limit) ==
    \E u \in Users : nextId.course <= limit /\ CourseCreateView_post(u)

\* a post of the module formset that allocates at most the ids up to limit
FormsetRequest(limit) ==
    \E u \in Users, pk \in CourseIds :
      \E d \in SUBSET FormsetIds(u, pk) :
        \E ch \in SUBSET (FormsetIds(u, pk) \ d), n \in 0..FormsetExtra, valid \in BOOLEAN :
          /\ nextId.module + n - 1 <= limit
          /\ CourseModuleUpdateView_post(u, pk, d, ch, n, valid)

\* the course and module side of the application
Next ==
    \/ CourseCreateRequest(MaxCourses)
    \/ \E c \in CourseIds, v \in Positions \cup {None} :
         nextId.module <= MaxModules /\ Module_objects_create(c, v)
    \/ FormsetRequest(MaxModules)
    \/ \E u \in Users, mapping \in ModuleOrderings : ModuleOrderView_post(u, mapping)

Spec == Init /\ [][Next]_vars

\* every view of the application, over the modules of one course
NextContent ==
    \/ CourseRequest(MaxContentCourses)
    \/ FormsetRequest(MaxContentModules)
    \/ \E u \in Users, mapping \in ModuleOrderings : ModuleOrderView_post(u, mapping)
    \/ \E u \in Users, m \in 1..MaxContentModules, k \in KindTags,
          id \in ItemIdArgs \cup {None}, valid \in BOOLEAN :
         /\ id = None => nextId.content <= MaxContents
         /\ ContentCreateUpdateView_post(u, m, k, id, valid)
    \/ \E u \in Users, id \in ContentIdArgs : ContentDeleteView_post(u, id)
    \/ \E u \in Users, mapping \in ContentOrderings : ContentOrderView_post(u, mapping)

SpecContent == Init /\ [][NextContent]_vars

\* creations only, none with an explicit position, each one completing
\* before the next starts
NextCreate ==
    \/ CourseCreateRequest(MaxCourses)
    \/ \E c \in CourseIds : nextId.module <= MaxModules /\ Module_objects_create(c, None)
    \/ \E u \in Users, pk \in CourseIds, n \in 1..FormsetExtra :
         /\ nextId.module + n - 1 <= MaxModules
         /\ CourseModuleUpdateView_post(u, pk, {}, {}, n, TRUE)
    \/ \E u \in Users, m \in ModuleIds, k \in KindTags :
         /\ nextId.content <= MaxContents
         /\ ContentCreateUpdateView_post(u, m, k, None, TRUE)

SpecCreate == Init /\ [][NextCreate]_vars

\* creations and the two reorder endpoints
NextOrder ==
    \/ NextCreate
    \/ \E u \in Users, mapping \in ModuleOrderings : ModuleOrderView_post(u, mapping)
    \/ \E u \in Users, mapping \in ContentOrderings : ContentOrderView_post(u, mapping)

SpecOrder == Init /\ [][NextOrder]_vars

\* the content requests step by step on the units of ws, the course and
\* module requests in one step each on a unit that is free; at most limit
\* contents are created
NextSteps(ws, limit) ==
    \/ \E w \in ws : pc[w].st = "idle" /\ CourseRequest(MaxContentCourses)
    \/ \E w \in ws : pc[w].st = "idle" /\ FormsetRequest(MaxStepModules)
    \/ \E w \in ws, u \in Users, m \in 1..MaxStepModules, k \in KindTags,
          id \in ItemIdArgs \cup {None}, valid \in BOOLEAN :
         /\ id = None => nextId.content + Cardinality(Creating) <= limit
         /\ Dispatch(w, u, m, k, id, valid)
    \/ \E w \in ws : SaveObj(w)
    \/ \E w \in ws : SaveNewObj(w)
    \/ \E w \in ws : PreSaveContent(w)
    \/ \E w \in ws : InsertNewContent(w)
    \/ \E w \in ws, u \in Users, id \in ContentIdArgs : GetContent(w, u, id)
    \/ \E w \in ws : DeleteContentItem(w)
    \/ \E w \in ws : DeleteContent(w)

\* one unit: the requests come one after another
SpecSerial == Init /\ [][NextSteps({"w1"}, MaxSerialContents)]_vars

\* two units: the requests interleave query by query
SpecConcurrent == Init /\ [][NextSteps(Workers, MaxContents)]_vars

\* creations only, the content ones query by query on the units of
\* Workers: two creations may be between their read and their insert at once
NextRace ==
    \/ \E w \in Workers : pc[w].st = "idle" /\ CourseCreateRequest(MaxContentCourses)
    \/ \E w \in Workers, u \in Users, pk \in CourseIds, n \in 1..FormsetExtra :
         /\ pc[w].st = "idle"
         /\ nextId.module + n - 1 <= MaxStepModules
         /\ CourseModuleUpdateView_post(u, pk, {}, {}, n, TRUE)
    \/ \E w \in Workers, u \in Users, m \in 1..MaxStepModules, k \in KindTags :
         /\ nextId.content + Cardinality(Creating) <= MaxContents
         /\ Dispatch(w, u, m, k, None, TRUE)
    \/ \E w \in Workers : SaveNewObj(w)
    \/ \E w \in Workers : PreSaveContent(w)
    \/ \E w \in Workers : InsertNewContent(w)

SpecRace == Init /\ [][NextRace]_vars

\* the user whose requests the reorder specification follows
Owner == "u1"

\* the reorder requests entry by entry on the units of Workers, over the
\* modules of one course and the contents of its first module, all requests
\* by one user
NextReorder ==
    \/ \E w \in Workers :
         /\ pc[w].st = "idle"
         /\ nextId.course <= MaxContentCourses
         /\ CourseCreateView_post(Owner)
    \/ \E w \in Workers, u \in {Owner}, pk \in CourseIds, n \in 1..FormsetExtra :
         /\ pc[w].st = "idle"
         /\ nextId.module + n - 1 <= MaxContentModules
         /\ CourseModuleUpdateView_post(u, pk, {}, {}, n, TRUE)
    \/ \E w \in Workers, u \in {Owner}, m \in 1..MaxStepModules :
         /\ pc[w].st = "idle"
         /\ nextId.content <= MaxContents
         /\ ContentCreateUpdateView_post(u, m, "text", None, TRUE)
    \/ \E w \in Workers, u \in {Owner}, mapping \in OrderBodies(1..MaxContentModules) :
         ModuleOrderView_begin(w, u, mapping)
    \/ \E w \in Workers : ModuleOrderView_update(w)
    \/ \E w \in Workers : ModuleOrderView_render(w)
    \/ \E w \in Workers, u \in {Owner}, mapping \in OrderBodies(ContentIdArgs) :
         ContentOrderView_begin(w, u, mapping)
    \/ \E w \in Workers : ContentOrderView_update(w)
    \/ \E w \in Workers : ContentOrderView_render(w)

SpecReorder == Init /\ [][NextReorder]_vars

\* creations without explicit positions and deletions, one request at a
\* time: the modules of one course and the contents of its first module
NextChurn ==
    \/ CourseRequest(MaxContentCourses)
    \/ \E c \in 1..MaxContentCourses :
         nextId.module <= MaxChurnModules /\ Module_objects_create(c, None)
    \/ \E u \in Users, pk \in 1..MaxContentCourses :
         \E d \in SUBSET FormsetIds(u, pk), n \in 0..FormsetExtra :
           /\ nextId.module + n - 1 <= MaxChurnModules
           /\ CourseModuleUpdateView_post(u, pk, d, {}, n, TRUE)
    \/ \E u \in Users, m \in 1..MaxStepModules, valid \in BOOLEAN :
         /\ nextId.content <= MaxChurnContents
         /\ ContentCreateUpdateView_post(u, m, "text", None, valid)
    \/ \E u \in Users, id \in 1..MaxChurnContents : ContentDeleteView_post(u, id)

\* the requests that arrive are handled: the server does not stop for good
\* while a request is waiting
SpecChurn == Init /\ [][NextChurn]_vars /\ WF_vars(NextChurn)

\* ------------------------------------------------------------ properties
\* the position after the highest one of rows, 0 when there is none
NextPosition(rows) ==
    IF rows = {} THEN 0
    ELSE (CHOOSE x \in {r.order : r \in rows} : \A r \in rows : r.order <= x) + 1

\* the rows of rs stored before the row r was (ids are handed out in order)
StoredBefore(rs, r) == {t \in rs : t.id < r.id}

\* C1: a Module or Content saved with its position unset gets the highest
\* position among the rows stored with the same course (Module) or the same
\* module (Content) plus one, and 0 when no stored row shares that scope; rows
\* of other scopes do not count.
C1_PositionIsScopeMaxPlusOne ==
    [][/\ \A r \in modules' :
            r.id \notin {m.id : m \in modules} =>
              r.order = NextPosition({m \in StoredBefore(modules', r) : m.course = r.course})
       /\ \A r \in contents' :
            r.id \notin {c.id : c \in contents} =>
              r.order = NextPosition({c \in StoredBefore(contents', r) : c.module = r.module})
      ]_vars

\* two courses hold one module each and each module one content, every one
\* the first of its scope and at position 0
C1_Witness ==
    /\ request = "content_create" /\ response = "302 module_content_list"
    /\ \E m1, m2 \in modules, c1, c2 \in contents :
         /\ m1.course # m2.course
         /\ m1.order = 0 /\ m2.order = 0
         /\ c1.module = m1.id /\ c2.module = m2.id
         /\ c1.order = 0 /\ c2.order = 0

\* C2: the rows created one after another in a scope without explicit
\* positions hold the positions 0, 1, ..., N-1 in creation order.
C2_SequentialPositions ==
    /\ \A r \in modules :
         r.order = Cardinality({m \in StoredBefore(modules, r) : m.course = r.course})
    /\ \A r \in contents :
         r.order = Cardinality({c \in StoredBefore(contents, r) : c.module = r.module})

\* a course with two modules at 0, 1 and a module with two contents at 0, 1
C2_Witness ==
    /\ \E c \in courses :
         {m.order : m \in ModuleForFields(modules, c.id)} = {0, 1}
    /\ \E m \in modules :
         {c.order : c \in ContentForFields(contents, m.id)} = {0, 1}

\* C3: a save of a row whose position is set stores that position, whatever
\* positions the scope holds already.
C3_ExplicitPositionKept ==
    [][request' = "module_save" /\ modules' # modules =>
         \A c \in CourseIds, v \in Positions :
           Module_objects_create(c, v) =>
             \E r \in modules' : /\ r.id = nextId.module /\ r.course = c /\ r.order = v
                                 /\ modules' = modules \cup {r}
      ]_vars

\* the module created last through the model API sits at a position that
\* another module of its course holds too
C3_Witness ==
    /\ request = "module_save"
    /\ \E r, t \in modules :
         /\ r.id = nextId.module - 1
         /\ t.id # r.id /\ t.course = r.course /\ t.order = r.order

\* the owner of the course a module row belongs to
ModuleOwner(m) == CourseOwner(m.course)

\* the owner of the course of the module a content row belongs to
ContentOwner(c) == ModuleOwner(CHOOSE m \in modules : m.id = c.module)

\* the position a reorder request asks for the row id, the one it has otherwise
Asked(rows, mapping, id) ==
    IF id \in DOMAIN mapping THEN mapping[id]
    ELSE (CHOOSE r \in rows : r.id = id).order

\* every listing of rows runs through them by ascending asked position
ListedAsAsked(before, after, mapping) ==
    /\ Listings(after) # {}
    /\ \A L \in Listings(after) : \A i, j \in DOMAIN L :
         i < j => Asked(before, mapping, L[i].id) <= Asked(before, mapping, L[j].id)

\* after is before with the rows named in mapping moved to the position asked
MovedExactly(before, after, mapping) ==
    /\ Cardinality(after) = Cardinality(before)
    /\ \A r \in before :
         [r EXCEPT !.order = Asked(before, mapping, r.id)] \in after

\* C4: a reorder request that names only rows of the caller's courses moves
\* exactly those rows to the positions supplied, whatever they were, leaves
\* every other row alone, and a listing of a scope by position reflects it.
C4_ReorderMovesExactlyNamed ==
    /\ \A u \in Users, mapping \in ModuleOrderings :
         (\A id \in DOMAIN mapping : \E m \in modules : m.id = id /\ ModuleOwner(m) = u) =>
           LET after == ApplyModuleOrder(modules, u, mapping)
           IN  /\ MovedExactly(modules, after, mapping)
               /\ \A c \in courses :
                    ListedAsAsked(modules, ModuleForFields(after, c.id), mapping)
    /\ \A u \in Users, mapping \in ContentOrderings :
         (\A id \in DOMAIN mapping : \E c \in contents : c.id = id /\ ContentOwner(c) = u) =>
           LET after == ApplyContentOrder(contents, u, mapping)
           IN  /\ MovedExactly(contents, after, mapping)
               /\ \A m \in modules :
                    ListedAsAsked(contents, ContentForFields(after, m.id), mapping)

\* a course whose two modules have been swapped by a reorder: the module
\* created second is listed first
C4_Witness ==
    /\ request = "module_order"
    /\ \E m1, m2 \in modules :
         /\ m1.id = 1 /\ m2.id = 2 /\ m1.course = m2.course
         /\ m1.order = 1 /\ m2.order = 0
         /\ Listings(ModuleForFields(modules, m1.course)) = {<<m2, m1>>}

\* C5: a reorder request changes no row of a course the caller does not own;
\* an entry naming such a row, or no row, is skipped, the other entries are
\* applied, and the response is the acknowledgment {"saved": "OK"}.
C5_ReorderSkipsForeign ==
    /\ request \in {"module_order", "content_order"} => response = "200 saved OK"
    /\ \A u \in Users, mapping \in ModuleOrderings :
         LET after == ApplyModuleOrder(modules, u, mapping)
             mine == {id \in DOMAIN mapping :
                        \E m \in modules : m.id = id /\ ModuleOwner(m) = u}
         IN  /\ \A m \in modules : ModuleOwner(m) # u => m \in after
             /\ MovedExactly(modules, after, [id \in mine |-> mapping[id]])
    /\ \A u \in Users, mapping \in ContentOrderings :
         LET after == ApplyContentOrder(contents, u, mapping)
             mine == {id \in DOMAIN mapping :
                        \E c \in contents : c.id = id /\ ContentOwner(c) = u}
         IN  /\ \A c \in contents : ContentOwner(c) # u => c \in after
             /\ MovedExactly(contents, after, [id \in mine |-> mapping[id]])

\* two users own a course each, each with its first module; a reorder has
\* moved the one and the other is where it was created
C5_Witness ==
    /\ request = "module_order" /\ response = "200 saved OK"
    /\ \E m1, m2 \in modules :
         /\ ModuleOwner(m1) # ModuleOwner(m2)
         /\ m1.order = 1 /\ m2.order = 0
         /\ nextId.module = 3

\* the store: every table and every id counter
store == <<courses, modules, contents, items, nextId>>

\* C6: a kind tag outside text, video, image, file ends a content create or
\* update request with "not found", never with an unhandled exception, and
\* leaves the store as it was.
C6_ForeignKindIsNotFound ==
    [][request' \in {"content_create", "content_update"} =>
         \A u \in Users, m \in ModuleIds, k \in KindTags \ ContentKinds,
            id \in ItemIdArgs \cup {None} :
              ContentCreateUpdateView_post(u, m, k, id, TRUE) =>
                response' = "404" /\ UNCHANGED store
      ]_vars

\* C7: the content delete view deletes the concrete item first and the
\* Content row second, and neither is in the store when the request is done.
C7_DeleteItemThenContent ==
    [][\A w \in Workers :
         /\ pc[w].st = "delete_item" /\ pc'[w].st = "delete_content" =>
              /\ \E c \in contents' : c.id = pc[w].content
              /\ ~ \E i \in items' : i.kind = pc[w].kind /\ i.id = pc[w].obj
         /\ pc[w].st = "delete_content" /\ pc'[w].st = "idle" =>
              /\ ~ \E i \in items : i.kind = pc[w].kind /\ i.id = pc[w].obj
              /\ ~ \E c \in contents' : c.id = pc[w].content
              /\ ~ \E i \in items' : i.kind = pc[w].kind /\ i.id = pc[w].obj
              /\ response' = "302 module_content_list"
      ]_vars

\* the one content created so far has been deleted by its owner: no Content
\* row and no item row is left
C7_Witness ==
    /\ request = "content_delete" /\ response = "302 module_content_list"
    /\ nextId.content = 2
    /\ contents = {} /\ items = {}

\* C8: on every deletion path the concrete item goes with its Content row:
\* no item is stored whose Content row is not.
C8_NoItemWithoutContent ==
    \A i \in items : \E c \in contents : c.content_type = i.kind /\ c.object_id = i.id

\* C9: once a row is stored its position changes through a reorder request
\* only: a save of the row again, and the creation, deletion or reordering of
\* other rows leave it as it is.
C9_PositionChangesOnlyByReorder ==
    [][/\ \A m \in modules, n \in modules' :
            n.id = m.id /\ n.order # m.order => request' = "module_order"
       /\ \A c \in contents, d \in contents' :
            d.id = c.id /\ d.order # c.order => request' = "content_order"
      ]_vars

\* two contents of a module swapped by a reorder keep their positions over an
\* update of an item
C9_Witness ==
    /\ request = "content_update" /\ response = "302 module_content_list"
    /\ \E c1, c2 \in contents :
         /\ c1.id = 1 /\ c2.id = 2 /\ c1.module = c2.module
         /\ c1.order = 1 /\ c2.order = 0

\* C10: in every state, the states between the queries of concurrent content
\* requests included, every Content row has one of the four kind tags and
\* resolves through (content_type, object_id) to exactly one stored item.
C10_EveryContentResolves ==
    \A c \in contents :
        /\ c.content_type \in ContentKinds
        /\ Cardinality(ContentItem(items, c)) = 1

\* C10 as amended: every Content row has one of the four kind tags and
\* resolves to exactly one stored item, unless a delete request for that row
\* has deleted the item and not the row yet.
C10_ContentResolvesUnlessBeingDeleted ==
    \A c \in contents :
        /\ c.content_type \in ContentKinds
        /\ \/ Cardinality(ContentItem(items, c)) = 1
           \/ \E w \in Workers : pc[w].st = "delete_content" /\ pc[w].content = c.id

\* a delete request has removed the item of a Content row that is still
\* stored, while the other unit is creating content
C10_Witness ==
    /\ \E c \in contents, w \in Workers :
         /\ ContentItem(items, c) = {}
         /\ pc[w].st = "delete_content" /\ pc[w].content = c.id
    /\ \E v \in Workers : pc[v].st = "insert"

\* C11: the position of a new row is read in one query and written in a
\* later one, with nothing held in between: the read returns the position
\* after the highest one stored in the scope at that moment and is open to a
\* unit while another one is between its read and its insert, and the insert
\* stores the position read, whatever the scope holds by then. Two creations
\* in one scope that read the same maximum are both stored at one position.
C11_PositionReadThenWritten ==
    [][\A w \in Workers :
         /\ pc[w].st = "pre_save" => ENABLED PreSaveContent(w)
         /\ pc[w].st = "pre_save" /\ pc'[w].st = "insert" =>
              pc'[w].value = NextPosition(ContentForFields(contents, pc[w].module))
         /\ pc[w].st = "insert" /\ pc'[w].st = "idle" /\ contents' # contents =>
              \E r \in contents' :
                 /\ r.id = nextId.content /\ r.module = pc[w].module
                 /\ r.order = pc[w].value
                 /\ contents' = contents \cup {r}
      ]_vars

\* the two contents created so far, by requests that ran side by side, sit
\* in one module at one position
C11_Witness ==
    /\ \A w \in Workers : pc[w].st = "idle"
    /\ nextId.content = 3
    /\ \E c1, c2 \in contents :
         /\ c1.id = 1 /\ c2.id = 2
         /\ c1.module = c2.module /\ c1.order = c2.order

\* the rows of before, the row id at the position order if it is among mine
WithEntry(before, mine, id, order) ==
    {IF r.id = id /\ r \in mine THEN [r EXCEPT !.order = order] ELSE r : r \in before}

\* C12: a reorder request writes its entries one by one, each in a statement
\* of its own: a turn of the loop writes the row of one entry and no other
\* row, neither those of the entries written before nor those of the entries
\* still to come; a request that ends, with the acknowledgment or in a failure
\* at some entry, leaves every row as the turns before left it, and the
\* acknowledgment comes only when every entry has had its turn. The store
\* between two turns is open to every other request.
C12_ReorderWritesEntryByEntry ==
    [][\A w \in Workers :
         /\ pc[w].st = "module_order" /\ pc'[w].st = "module_order" /\ pc'[w] # pc[w] =>
              \E id \in DOMAIN pc[w].json \ pc[w].done :
                 /\ pc'[w].done = pc[w].done \cup {id}
                 /\ modules' = WithEntry(modules, {m \in modules : ModuleOwner(m) = pc[w].user},
                                         id, pc[w].json[id])
         /\ pc[w].st = "content_order" /\ pc'[w].st = "content_order" /\ pc'[w] # pc[w] =>
              \E id \in DOMAIN pc[w].json \ pc[w].done :
                 /\ pc'[w].done = pc[w].done \cup {id}
                 /\ contents' = WithEntry(contents, {c \in contents : ContentOwner(c) = pc[w].user},
                                          id, pc[w].json[id])
         /\ pc[w].st \in {"module_order", "content_order"} /\ pc'[w].st = "idle" =>
              /\ UNCHANGED store
              /\ request' = pc[w].st
              /\ response' \in {"200 saved OK", "500"}
              /\ response' = "200 saved OK" <=> pc[w].done = DOMAIN pc[w].json
         /\ pc[w].st \in {"module_order", "content_order"} =>
              \A v \in Workers \ {w} : pc[v].st = "idle" =>
                 /\ ENABLED ModuleOrderView_begin(v, Owner, pc[w].json)
                 /\ ENABLED ContentOrderView_begin(v, Owner, pc[w].json)
      ]_vars

\* the row written by the turn over the entry id of the request of unit w
Applied(rows, w, id) == \E r \in rows : r.id = id /\ r.order = pc[w].json[id]

\* two reorder requests over the two modules of a course are both between
\* their first and their second turn: each has written one row, and the entry
\* the first of them has still to come to is one that fails
C12_Witness ==
    /\ pc["w1"].st = "module_order" /\ pc["w2"].st = "module_order"
    /\ DOMAIN pc["w1"].json = {1, 2} /\ DOMAIN pc["w2"].json = {1, 2}
    /\ pc["w1"].done = {1} /\ pc["w2"].done = {2}
    /\ Applied(modules, "w1", 1) /\ Applied(modules, "w2", 2)
    /\ pc["w1"].json[2] = None
    /\ \E m1, m2 \in modules : m1.id = 1 /\ m2.id = 2 /\ m1.course = m2.course

\* no two rows of a scope at one position
DistinctPositions(mods, cts) ==
    /\ \A r, t \in mods : r.course = t.course /\ r.order = t.order => r = t
    /\ \A r, t \in cts : r.module = t.module /\ r.order = t.order => r = t

\* every row of after that before has not sits above the rows of its scope
\* stored before it
NewRowsLast(before, after, scope(_)) ==
    \A r \in after :
        r.id \notin {t.id : t \in before} =>
          \A t \in StoredBefore(after, r) : scope(t) = scope(r) => t.order < r.order

\* no module of course c at position p, and one at a higher position: over
\* creations and deletions alone the positions of a scope are handed out from
\* 0 upwards, so p was held, and freed while a higher position was taken
ModuleGap(c, p) ==
    /\ \E m \in modules : m.course = c /\ m.order > p
    /\ ~ \E m \in modules : m.course = c /\ m.order = p

\* the same for the contents of module m
ContentGap(m, p) ==
    /\ \E c \in contents : c.module = m /\ c.order > p
    /\ ~ \E c \in contents : c.module = m /\ c.order = p

\* C13: over creations without explicit positions and deletions, one request
\* at a time, the positions of a scope are pairwise distinct in every state,
\* a new row sits above every row of its scope stored when it is created, and
\* a position freed by a deletion below the highest one is never held again.
C13_FreedPositionNeverReused ==
    /\ []DistinctPositions(modules, contents)
    /\ [][/\ NewRowsLast(modules, modules', LAMBDA r : r.course)
          /\ NewRowsLast(contents, contents', LAMBDA r : r.module)]_vars
    /\ \A c \in 1..MaxContentCourses, p \in 0..MaxChurnModules :
         [](ModuleGap(c, p) => [] ~ \E m \in modules : m.course = c /\ m.order = p)
    /\ \A m \in 1..MaxStepModules, p \in 0..MaxChurnContents :
         [](ContentGap(m, p) => [] ~ \E c \in contents : c.module = m /\ c.order = p)

\* C13 as amended: the positions of a scope are pairwise distinct in every
\* state and a new row sits above every row of its scope stored when it is
\* created, so no position below the highest one stored is given out; a
\* position freed by a deletion is given out again only when no row of the
\* scope at or above it is left.
C13_NewRowAboveStoredSiblings ==
    [][/\ DistinctPositions(modules', contents')
       /\ NewRowsLast(modules, modules', LAMBDA r : r.course)
       /\ NewRowsLast(contents, contents', LAMBDA r : r.module)
       /\ \A r \in modules' :
            r.id \notin {t.id : t \in modules} =>
              r.order = NextPosition({t \in StoredBefore(modules', r) : t.course = r.course})
       /\ \A r \in contents' :
            r.id \notin {t.id : t \in contents} =>
              r.order = NextPosition({t \in StoredBefore(contents', r) : t.module = r.module})
      ]_vars

\* the module and the content created last have each gone above a position
\* of their scope that a deletion has freed and that is still free
C13_Witness ==
    /\ \E r \in modules :
         /\ r.id = nextId.module - 1
         /\ \E p \in 0..MaxChurnModules : p < r.order /\ ModuleGap(r.course, p)
    /\ \E r \in contents :
         /\ r.id = nextId.content - 1
         /\ \E p \in 0..MaxChurnContents : p < r.order /\ ContentGap(r.module, p)

====
